---- MODULE Spec2Model ----
(***************************************************************************)
(* The session lifecycle of the WhatsApp integration service               *)
(* (src/index.js, the service with capacity and idle eviction, lines       *)
(* 301-894).                                                               *)
(*                                                                         *)
(* Node runs every handler to completion, so each request handler, each    *)
(* adapter event handler and each promise callback is one atomic action;   *)
(* the send route is split at its await of client.sendMessage.             *)
(* The whatsapp-web.js client, qrcode.toDataURL and the file               *)
(* system are collaborators: a client emits its events and settles its     *)
(* promises at any time, in the order of its own protocol (auth codes      *)
(* before authentication, authentication before ready, nothing after a     *)
(* failure to connect or to authenticate); its logout() is a sign-off that *)
(* either resolves or rejects; the credential directory of a tenant is     *)
(* written by the client when it authenticates and removed only by         *)
(* fs.rmSync, which is taken to succeed.  The profile-pic route has an     *)
(* await too,                                                              *)
(* but what follows its await touches none of the maps, so it is one       *)
(* action.  GET /health and GET /info read the maps and write nothing;     *)
(* they are not modelled.                                                  *)
(*                                                                         *)
(* Time is kept relative: sessionTimers holds, for each tenant, the ticks  *)
(* elapsed since the Date.now() the code stored, counted up to             *)
(* SESSION_TIMEOUT + 1, which is all that now - sessionTimers[t] >         *)
(* SESSION_TIMEOUT reads.  A client that sessions no longer refers to      *)
(* lives on in orphans for as long as it can run a callback of the         *)
(* program; clients with the same fields are not told apart there.         *)
(*                                                                         *)
(* Spec is the service under every tenant and every interleaving.  It is   *)
(* checked in scopes made of the same actions:                             *)
(*   SpecTenant    one tenant, every action, every interleaving;           *)
(*   FairTenant    SpecTenant with a fair clock, a fair idle scan and      *)
(*                 logout() promises that settle;                          *)
(*   SpecCapacity  two tenants competing for the capacity: no time passes, *)
(*                 no message is sent, and a rendering under way or what   *)
(*                 an unreferenced client has left to do is done before    *)
(*                 the next request;                                       *)
(*   SpecScan      two tenants, the clock and the idle scan, requests and  *)
(*                 the scan waiting in the same way; no message is sent,   *)
(*                 the process is not restarted or stopped.                *)
(***************************************************************************)
EXTENDS Integers, Sequences, FiniteSets, TLC

\* ---------------------------------------------------------------- bounds
\* MAX_SESSIONS is read from the environment: the model draws it from
\* 1..MaxCapacity.
MaxCapacity == 2
\* Clients that no entry of sessions refers to and that are not garbage yet.
MaxOrphans == 1

\* ---------------------------------------------------- program constants
\* SESSION_TIMEOUT, in clock ticks of the model.
SESSION_TIMEOUT == 1
MaxTenantIdLength == 50
MaxMessageLength == 4096
MinNumberDigits == 10
MaxNumberDigits == 15

\* ------------------------------------------------------------ tenant ids
Rep(c, n) == [i \in 1..n |-> c]

LongId == "a51"

\* The characters of each tenant id a request or a credential directory
\* can carry.
TenantIdChars ==
    [t \in {"t1", "t2", "", "a/b", LongId} |->
        CASE t = "t1" -> <<"t", "1">>
          [] t = "t2" -> <<"t", "2">>
          [] t = "" -> <<>>
          [] t = "a/b" -> <<"a", "/", "b">>
          [] OTHER -> Rep("a", MaxTenantIdLength + 1)]

TenantIds == DOMAIN TenantIdChars

Letters ==
    {"a", "b", "c", "d", "e", "f", "g", "h", "i", "j", "k", "l", "m",
     "n", "o", "p", "q", "r", "s", "t", "u", "v", "w", "x", "y", "z",
     "A", "B", "C", "D", "E", "F", "G", "H", "I", "J", "K", "L", "M",
     "N", "O", "P", "Q", "R", "S", "T", "U", "V", "W", "X", "Y", "Z"}

Digits == {"0", "1", "2", "3", "4", "5", "6", "7", "8", "9"}

IdChars == Letters \cup Digits \cup {"_", "-"}

\* /^[a-zA-Z0-9_-]+$/
MatchesIdPattern(chars) ==
    /\ Len(chars) >= 1
    /\ \A i \in 1..Len(chars) : chars[i] \in IdChars

validateTenantIdAnyLength(tenantId) ==
    /\ TenantIdChars[tenantId] # <<>>
    /\ MatchesIdPattern(TenantIdChars[tenantId])

validateTenantId(tenantId) ==
    /\ TenantIdChars[tenantId] # <<>>
    /\ MatchesIdPattern(TenantIdChars[tenantId])
    /\ Len(TenantIdChars[tenantId]) <= MaxTenantIdLength

\* The ids under which the maps can hold an entry: the middleware and the
\* startup scan let no other id through.
Tenants == {t \in TenantIds : validateTenantId(t)}

\* ------------------------------------------------------------------ state
VARIABLES
    MAX_SESSIONS,   \* the configured capacity
    sessions,       \* tenant id -> its registered client, NoClient: no entry
    statuses,       \* tenant id -> status record, Undefined: no entry
    sessionTimers,  \* tenant id -> ticks since its last activity, NoTimer: no entry
    orphans,        \* the clients no entry of sessions refers to any more
    renders,        \* tenant ids with a qrcode.toDataURL callback to come
    files,          \* tenant ids with a credential directory
    started,        \* the startup readdir callback has run
    running,        \* the process has not exited
    pendingSend,    \* a send request is waiting on client.sendMessage
    evicted,        \* history: tenants whose last teardown was the idle scan
    overtaken       \* history: tenant ids whose rendering under way was started
                    \* before their status was last set to authenticated,
                    \* ready or disconnected

vars == <<MAX_SESSIONS, sessions, statuses, sessionTimers, orphans, renders, files,
          started, running, pendingSend, evicted, overtaken>>

\* A status record: its status, whether it carries a qr field, and its
\* message ("": none).
Undefined == [status |-> "undefined", qr |-> FALSE, message |-> ""]
StatusOf(s) == [status |-> s, qr |-> FALSE, message |-> ""]
ErrorStatus(message) == [status |-> "error", qr |-> FALSE, message |-> message]
QrStatus == [status |-> "qr", qr |-> TRUE, message |-> ""]

MaximumReached == "Maximum number of sessions reached. Please try again later."
QrFailed == "Failed to generate QR code."
AuthenticationFailed == "Authentication failed. Please try again."
InitializationFailed == "Initialization failed."

NoTimer == -1

NoClient ==
    [tenant |-> "", phase |-> "none", logout |-> "none", destroyed |-> 0,
     silent |-> FALSE]

\* new Client(...).  phase: where the client is in its protocol, "starting"
\* while initialize() is pending; logout: the state of its logout() promise;
\* destroyed: the calls of destroy() on it; silent: LocalAuth found the tenant's
\* credential directory and no auth code has been issued, so the client can
\* authenticate from the stored credentials.
NewClient(tenantId, stored) ==
    [tenant |-> tenantId, phase |-> "starting", logout |-> "none",
     destroyed |-> 0, silent |-> stored]

\* The maps a handler reads and writes, threaded through the calls it makes,
\* with what the handler answers: code and status are res.status(code) and the
\* status field of the body; awaiting: the handler is at its await.
Store ==
    [sessions |-> sessions, statuses |-> statuses, sessionTimers |-> sessionTimers,
     orphans |-> orphans, renders |-> renders, files |-> files, created |-> FALSE,
     code |-> 0, status |-> "none", awaiting |-> FALSE]

Respond(st, code, status) == [st EXCEPT !.code = code, !.status = status]

\* A client that has stopped (closed, or failed to connect or to authenticate)
\* and has no promise outstanding: it runs no callback any more.
Garbage(client) ==
    /\ client.phase \in {"closed", "failed"}
    /\ client.logout # "pending"

\* The handler has run: its writes are the new state.  Clients that are garbage
\* are collected; the model follows runs with at most MaxOrphans other
\* unreferenced clients.
Commit(st) ==
    /\ Cardinality({c \in st.orphans : ~Garbage(c)}) <= MaxOrphans
    /\ sessions' = st.sessions
    /\ statuses' = st.statuses
    /\ sessionTimers' = st.sessionTimers
    /\ orphans' = {c \in st.orphans : ~Garbage(c)}
    /\ renders' = st.renders
    /\ files' = st.files
    /\ overtaken' =
         {t \in renders \cap st.renders :
            \/ t \in overtaken
            \/ /\ st.statuses[t] # statuses[t]
               /\ st.statuses[t].status \in {"authenticated", "ready", "disconnected"}}

\* Object.keys(sessions)
Registered(st) == {t \in Tenants : st.sessions[t] # NoClient}

KeepRegistered(st, tenantId) == st

\* delete sessions[tenantId], or its overwriting: the client it held is
\* referenced by its own callbacks only.
Unregister(st, tenantId) ==
    IF st.sessions[tenantId] = NoClient THEN st
    ELSE [st EXCEPT !.orphans = @ \cup {st.sessions[tenantId]},
                    !.sessions[tenantId] = NoClient]

\* ------------------------------------------------------------- functions
canCreateSessionOffByOne(st) == Cardinality(Registered(st)) <= MAX_SESSIONS

canCreateSessionAlways(st) == TRUE

canCreateSession(st) == Cardinality(Registered(st)) < MAX_SESSIONS

updateSessionActivityDropped(st, tenantId) == st

\* sessionTimers[tenantId] = Date.now()
updateSessionActivity(st, tenantId) ==
    [st EXCEPT !.sessionTimers[tenantId] = 0]

createSessionRefusingSilently(st, tenantId) ==
    IF ~canCreateSession(st)
    THEN [st EXCEPT !.created = FALSE]
    ELSE [Unregister(updateSessionActivity(st, tenantId), tenantId) EXCEPT
            !.sessions[tenantId] = NewClient(tenantId, tenantId \in st.files),
            !.statuses[tenantId] = StatusOf("initializing"),
            !.created = TRUE]

createSessionKeepingStatus(st, tenantId) ==
    IF ~canCreateSession(st)
    THEN [st EXCEPT !.statuses[tenantId] = ErrorStatus(MaximumReached),
                    !.created = FALSE]
    ELSE [Unregister(updateSessionActivity(st, tenantId), tenantId) EXCEPT
            !.sessions[tenantId] = NewClient(tenantId, tenantId \in st.files),
            !.created = TRUE]

\* The client is instantiated and registered, unless the capacity is reached.
createSession(st, tenantId) ==
    IF ~canCreateSession(st)
    THEN [st EXCEPT !.statuses[tenantId] = ErrorStatus(MaximumReached),
                    !.created = FALSE]
    ELSE [Unregister(updateSessionActivity(st, tenantId), tenantId) EXCEPT
            !.sessions[tenantId] = NewClient(tenantId, tenantId \in st.files),
            !.statuses[tenantId] = StatusOf("initializing"),
            !.created = TRUE]

cleanupSessionKeepingFiles(st, tenantId, deleteFiles) ==
    LET s1 == IF st.sessions[tenantId] # NoClient
              THEN Unregister([st EXCEPT !.sessions[tenantId].logout = "pending"],
                              tenantId)
              ELSE st
    IN [s1 EXCEPT !.sessionTimers[tenantId] = NoTimer,
                  !.statuses[tenantId] = StatusOf("disconnected")]

cleanupSessionDeletingFiles(st, tenantId, deleteFiles) ==
    LET s1 == IF st.sessions[tenantId] # NoClient
              THEN Unregister([st EXCEPT !.sessions[tenantId].logout = "pending"],
                              tenantId)
              ELSE st
    IN [s1 EXCEPT !.sessionTimers[tenantId] = NoTimer,
                  !.files = @ \ {tenantId},
                  !.statuses[tenantId] = StatusOf("disconnected")]

\* client.logout() is invoked on the registered client; its outcome comes later.
cleanupSession(st, tenantId, deleteFiles) ==
    LET s1 == IF st.sessions[tenantId] # NoClient
              THEN Unregister([st EXCEPT !.sessions[tenantId].logout = "pending"],
                              tenantId)
              ELSE st
        s2 == IF s1.sessionTimers[tenantId] # NoTimer
              THEN [s1 EXCEPT !.sessionTimers[tenantId] = NoTimer]
              ELSE s1
        s3 == IF deleteFiles /\ tenantId \in s2.files
              THEN [s2 EXCEPT !.files = s2.files \ {tenantId}]
              ELSE s2
    IN [s3 EXCEPT !.statuses[tenantId] = StatusOf("disconnected")]

cleanupNone(st, ids) == st

RECURSIVE cleanupAllDeletingFiles(_, _)
cleanupAllDeletingFiles(st, ids) ==
    IF ids = {} THEN st
    ELSE LET t == CHOOSE x \in ids : TRUE
         IN cleanupAllDeletingFiles(cleanupSession(st, t, TRUE), ids \ {t})

\* cleanupSession(tenantId) for each tenant id of ids.
RECURSIVE cleanupAll(_, _)
cleanupAll(st, ids) ==
    IF ids = {} THEN st
    ELSE LET t == CHOOSE x \in ids : TRUE
         IN cleanupAll(cleanupSession(st, t, FALSE), ids \ {t})

\* ------------------------------------------------------- request payloads
Undef == [type |-> "undefined", chars |-> <<>>]
NotAString == [type |-> "number", chars |-> <<>>]
Str(chars) == [type |-> "string", chars |-> chars]

\* !v for the values above (the number is not 0).
Falsy(v) == v.type = "undefined" \/ (v.type = "string" /\ Len(v.chars) = 0)

\* The bodies the send route is tried with: number and message.
Payload(number, message) == [number |-> number, message |-> message]
GoodNumber == Str(Rep("7", MinNumberDigits))
GoodMessage == Str(<<"h", "i">>)

Payloads ==
    {Payload(GoodNumber, GoodMessage),
     Payload(Str(<<"+", "1", " ", "(", "2", "3", "4", ")", " ", "5", "6", "7", "-",
                   "8", "9", "0", "1">>), Str(Rep("x", MaxMessageLength))),
     Payload(Str(Rep("7", MaxNumberDigits)), GoodMessage),
     Payload(Undef, GoodMessage),
     Payload(GoodNumber, Undef),
     Payload(Str(<<>>), GoodMessage),
     Payload(GoodNumber, Str(<<>>)),
     Payload(NotAString, GoodMessage),
     Payload(GoodNumber, NotAString),
     Payload(GoodNumber, Str(Rep("x", MaxMessageLength + 1))),
     Payload(Str(<<"1", "2", "3">>), GoodMessage),
     Payload(Str(Rep("7", MinNumberDigits - 1)), GoodMessage),
     Payload(Str(Rep("7", MaxNumberDigits + 1)), GoodMessage)}

IsDigit(c) == c \in Digits

\* number.replace(/\D/g, '')
cleanNumber(number) == SelectSeq(number.chars, IsDigit)

StatusOrUndefined(st, tenantId) == st.statuses[tenantId].status

\* statusInfo?.status || 'disconnected'
StatusOrDisconnected(st, tenantId) ==
    IF st.statuses[tenantId].status = "undefined" THEN "disconnected"
    ELSE st.statuses[tenantId].status

\* ------------------------------------------------------- request handlers
\* Each route is the middleware validateTenantIdMiddleware followed by the
\* handler, as a function of the maps: the maps it leaves and its answer.

\* GET /session/:tenantId/status
statusRoute(st, tenantId) ==
    IF ~validateTenantId(tenantId) THEN Respond(st, 400, "none")
    ELSE Respond(updateSessionActivity(st, tenantId), 200,
                 StatusOrDisconnected(st, tenantId))

\* !client || !statusInfo ||
\* (statusInfo.status !== 'ready' && statusInfo.status !== 'authenticated')
NotConnected(st, tenantId) ==
    \/ st.sessions[tenantId] = NoClient
    \/ st.statuses[tenantId].status = "undefined"
    \/ st.statuses[tenantId].status \notin {"ready", "authenticated"}

\* GET /session/:tenantId/info; hasInfo: client.info is set.
infoRoute(st, tenantId, hasInfo) ==
    IF ~validateTenantId(tenantId) THEN Respond(st, 400, "none")
    ELSE LET s1 == updateSessionActivity(st, tenantId) IN
         IF NotConnected(s1, tenantId)
         THEN Respond(s1, 409, StatusOrDisconnected(s1, tenantId))
         ELSE Respond(s1, IF hasInfo THEN 200 ELSE 202, "none")

\* GET /session/:tenantId/profile-pic; fetched: client.getProfilePicUrl
\* resolved.  What follows its await reads and writes none of the maps, so the
\* answer is given here.
profilePicRoute(st, tenantId, hasInfo, fetched) ==
    IF ~validateTenantId(tenantId) THEN Respond(st, 400, "none")
    ELSE LET s1 == updateSessionActivity(st, tenantId) IN
         IF NotConnected(s1, tenantId)
         THEN Respond(s1, 409, StatusOrDisconnected(s1, tenantId))
         ELSE IF ~hasInfo THEN Respond(s1, 202, "none")
         ELSE Respond(s1, IF fetched THEN 200 ELSE 500, "none")

qrRouteAlwaysCreating(st, tenantId) ==
    IF ~validateTenantId(tenantId) THEN Respond(st, 400, "none")
    ELSE LET made == createSession(updateSessionActivity(st, tenantId), tenantId) IN
         IF made.created THEN Respond(made, 202, "initializing")
         ELSE Respond(made, 503, "error")

\* GET /session/:tenantId/qr
qrRoute(st, tenantId) ==
    IF ~validateTenantId(tenantId) THEN Respond(st, 400, "none")
    ELSE LET s1 == updateSessionActivity(st, tenantId)
             statusInfo == s1.statuses[tenantId]
             made == createSession(s1, tenantId) IN
         IF statusInfo.status \in {"ready", "authenticated"}
         THEN Respond(s1, 200, "authenticated")
         ELSE IF statusInfo.status = "qr" /\ statusInfo.qr
         THEN Respond(s1, 200, "qr")
         ELSE IF statusInfo.status = "initializing"
         THEN Respond(s1, 202, "initializing")
         ELSE IF statusInfo.status \in {"undefined", "disconnected", "error"}
         THEN IF made.created THEN Respond(made, 202, "initializing")
              ELSE Respond(made, 503, "error")
         ELSE Respond(s1, 200, statusInfo.status)

NotReadyWithoutClient(st, tenantId) == st.sessions[tenantId] = NoClient

\* !client || !statusInfo || statusInfo.status !== 'ready'
NotReady(st, tenantId) ==
    \/ st.sessions[tenantId] = NoClient
    \/ st.statuses[tenantId].status = "undefined"
    \/ st.statuses[tenantId].status # "ready"

\* POST /session/:tenantId/send, up to the await of client.sendMessage.
sendRoute(st, tenantId, body) ==
    IF ~validateTenantId(tenantId) THEN Respond(st, 400, "none")
    ELSE LET s1 == updateSessionActivity(st, tenantId) IN
         IF Falsy(body.number) \/ Falsy(body.message)
         THEN Respond(s1, 400, "none")
         ELSE IF body.number.type # "string" \/ body.message.type # "string"
         THEN Respond(s1, 400, "none")
         ELSE IF Len(body.message.chars) > MaxMessageLength
         THEN Respond(s1, 400, "none")
         ELSE IF NotReady(s1, tenantId)
         THEN Respond(s1, 409, StatusOrDisconnected(s1, tenantId))
         ELSE IF \/ Len(cleanNumber(body.number)) < MinNumberDigits
                 \/ Len(cleanNumber(body.number)) > MaxNumberDigits
         THEN Respond(s1, 400, "none")
         ELSE [s1 EXCEPT !.awaiting = TRUE]

sendSettledDroppingStatuses(st, sent) ==
    Respond([st EXCEPT !.statuses = [t \in Tenants |-> Undefined]],
            IF sent THEN 200 ELSE 500, "none")

\* The rest of the send route: client.sendMessage resolved, or threw.
sendSettled(st, sent) ==
    Respond(st, IF sent THEN 200 ELSE 500, "none")

reconnectRouteWithoutCleanup(st, tenantId) ==
    IF ~validateTenantId(tenantId) THEN Respond(st, 400, "none")
    ELSE LET made == createSession(updateSessionActivity(st, tenantId), tenantId) IN
         IF made.created THEN Respond(made, 200, "none")
         ELSE Respond(made, 503, "none")

\* POST /session/:tenantId/reconnect
reconnectRoute(st, tenantId) ==
    IF ~validateTenantId(tenantId) THEN Respond(st, 400, "none")
    ELSE LET made == createSession(
                        cleanupSession(updateSessionActivity(st, tenantId),
                                       tenantId, FALSE),
                        tenantId) IN
         IF made.created THEN Respond(made, 200, "none")
         ELSE Respond(made, 503, "none")

logoutRouteForAll(st, tenantId) ==
    IF ~validateTenantId(tenantId) THEN Respond(st, 400, "none")
    ELSE Respond(cleanupAllDeletingFiles(st, Registered(st) \cup {tenantId}),
                 200, "none")

\* DELETE /session/:tenantId/logout
logoutRoute(st, tenantId) ==
    IF ~validateTenantId(tenantId) THEN Respond(st, 400, "none")
    ELSE Respond(cleanupSession(st, tenantId, TRUE), 200, "none")

\* --------------------------------------------------------------- requests
Status(tenantId) ==
    /\ running
    /\ Commit(statusRoute(Store, tenantId))
    /\ UNCHANGED <<MAX_SESSIONS, started, running, pendingSend, evicted>>

Info(tenantId, hasInfo) ==
    /\ running
    /\ Commit(infoRoute(Store, tenantId, hasInfo))
    /\ UNCHANGED <<MAX_SESSIONS, started, running, pendingSend, evicted>>

ProfilePic(tenantId, hasInfo, fetched) ==
    /\ running
    /\ Commit(profilePicRoute(Store, tenantId, hasInfo, fetched))
    /\ UNCHANGED <<MAX_SESSIONS, started, running, pendingSend, evicted>>

Qr(tenantId) ==
    /\ running
    /\ Commit(qrRoute(Store, tenantId))
    /\ UNCHANGED <<MAX_SESSIONS, started, running, pendingSend, evicted>>

\* One send request is in flight at a time.
Send(tenantId, body) ==
    /\ running
    /\ ~pendingSend
    /\ LET sent == sendRoute(Store, tenantId, body) IN
       /\ Commit(sent)
       /\ pendingSend' = sent.awaiting
    /\ UNCHANGED <<MAX_SESSIONS, started, running, evicted>>

SendSettled(sent) ==
    /\ running
    /\ pendingSend
    /\ Commit(sendSettled(Store, sent))
    /\ pendingSend' = FALSE
    /\ UNCHANGED <<MAX_SESSIONS, started, running, evicted>>

Reconnect(tenantId) ==
    /\ running
    /\ Commit(reconnectRoute(Store, tenantId))
    /\ evicted' = evicted \ {tenantId}
    /\ UNCHANGED <<MAX_SESSIONS, started, running, pendingSend>>

Logout(tenantId) ==
    /\ running
    /\ Commit(logoutRoute(Store, tenantId))
    /\ evicted' = evicted \ {tenantId}
    /\ UNCHANGED <<MAX_SESSIONS, started, running, pendingSend>>

\* ---------------------------------------------------------- client events
\* The clients that can emit an event or settle a promise: the registered
\* ones and the orphans.
Emitters ==
    {[reg |-> TRUE, client |-> sessions[t]] : t \in Registered(Store)}
        \cup {[reg |-> FALSE, client |-> o] : o \in orphans}

\* The maps once the client of e has become c.
Put(st, e, c) ==
    IF e.reg THEN [st EXCEPT !.sessions[c.tenant] = c]
    ELSE [st EXCEPT !.orphans = (@ \ {e.client}) \cup {c}]

\* Everything an event handler or promise callback leaves alone.
Background == UNCHANGED <<MAX_SESSIONS, started, running, pendingSend>>

\* client.on('qr'): the handler starts the rendering of the code.
EmitQr(e) ==
    /\ running
    /\ e.client.phase \in {"starting", "qr"}
    /\ e.client.tenant \notin renders
    /\ Commit(Put([updateSessionActivity(Store, e.client.tenant) EXCEPT
                     !.renders = @ \cup {e.client.tenant}],
                  e, [e.client EXCEPT !.phase = "qr", !.silent = FALSE]))
    /\ Background
    /\ evicted' = evicted \ {e.client.tenant}

\* The callback of qrcode.toDataURL: it refers to the tenant id only.
QrRendered(tenantId, err) ==
    /\ running
    /\ tenantId \in renders
    /\ Commit([Store EXCEPT !.renders = @ \ {tenantId},
                            !.statuses[tenantId] =
                                IF err THEN ErrorStatus(QrFailed) ELSE QrStatus])
    /\ Background
    /\ UNCHANGED evicted

\* client.on('ready')
EmitReady(e) ==
    /\ running
    /\ e.client.phase = "authenticated"
    /\ Commit(Put([updateSessionActivity(Store, e.client.tenant) EXCEPT
                     !.statuses[e.client.tenant] = StatusOf("ready")],
                  e, [e.client EXCEPT !.phase = "ready"]))
    /\ Background
    /\ UNCHANGED evicted

EmitAuthenticatedMerging(e) ==
    /\ running
    /\ \/ e.client.phase = "qr"
       \/ e.client.phase = "starting" /\ e.client.silent
    /\ Commit(Put([updateSessionActivity(Store, e.client.tenant) EXCEPT
                     !.files = @ \cup {e.client.tenant},
                     !.statuses[e.client.tenant].status = "authenticated"],
                  e, [e.client EXCEPT !.phase = "authenticated"]))
    /\ Background
    /\ UNCHANGED evicted

\* client.on('authenticated'): the client has stored the tenant's credentials.
EmitAuthenticated(e) ==
    /\ running
    /\ \/ e.client.phase = "qr"
       \/ e.client.phase = "starting" /\ e.client.silent
    /\ Commit(Put([updateSessionActivity(Store, e.client.tenant) EXCEPT
                     !.files = @ \cup {e.client.tenant},
                     !.statuses[e.client.tenant] = StatusOf("authenticated")],
                  e, [e.client EXCEPT !.phase = "authenticated"]))
    /\ Background
    /\ UNCHANGED evicted

EmitAuthFailureDropping(e) ==
    /\ running
    /\ e.client.phase \in {"starting", "qr"}
    /\ Commit(Unregister(Put([Store EXCEPT !.statuses[e.client.tenant] =
                                               ErrorStatus(AuthenticationFailed)],
                             e, [e.client EXCEPT !.phase = "failed"]),
                         e.client.tenant))
    /\ Background
    /\ evicted' = evicted \ {e.client.tenant}

\* client.on('auth_failure')
EmitAuthFailure(e) ==
    /\ running
    /\ e.client.phase \in {"starting", "qr"}
    /\ Commit(Put([Store EXCEPT !.statuses[e.client.tenant] =
                                     ErrorStatus(AuthenticationFailed)],
                  e, [e.client EXCEPT !.phase = "failed"]))
    /\ Background
    /\ evicted' = evicted \ {e.client.tenant}

EmitDisconnectedKeepingEntry(e) ==
    /\ running
    /\ e.client.phase \notin {"closed", "failed"}
    /\ Commit([Store EXCEPT !.statuses[e.client.tenant] = StatusOf("disconnected"),
                            !.sessionTimers[e.client.tenant] = NoTimer])
    /\ Background
    /\ evicted' = evicted \ {e.client.tenant}

\* client.on('disconnected'): the handler destroys the client that emitted it
\* and deletes the tenant's entries.
EmitDisconnected(e) ==
    /\ running
    /\ e.client.phase \notin {"closed", "failed"}
    /\ LET st == Put([Store EXCEPT !.statuses[e.client.tenant] =
                                        StatusOf("disconnected")],
                     e, [e.client EXCEPT !.phase = "closed",
                                         !.destroyed = @ + 1]) IN
       Commit([Unregister(st, e.client.tenant) EXCEPT
                 !.sessionTimers[e.client.tenant] = NoTimer])
    /\ Background
    /\ evicted' = evicted \ {e.client.tenant}

\* client.on('change_state')
EmitChangeState(e) ==
    /\ running
    /\ e.client.phase \in {"authenticated", "ready"}
    /\ Commit(updateSessionActivity(Store, e.client.tenant))
    /\ Background
    /\ UNCHANGED evicted

\* client.initialize().catch
InitializeRejected(e) ==
    /\ running
    /\ e.client.phase = "starting"
    /\ Commit(Put([Store EXCEPT !.statuses[e.client.tenant] =
                                     ErrorStatus(InitializationFailed)],
                  e, [e.client EXCEPT !.phase = "failed"]))
    /\ Background
    /\ evicted' = evicted \ {e.client.tenant}

\* client.logout() resolves: the client has signed off.
LogoutResolved(e) ==
    /\ running
    /\ e.client.logout = "pending"
    /\ Commit(Put(Store, e, [e.client EXCEPT !.logout = "ok",
                                             !.phase = "closed"]))
    /\ Background
    /\ UNCHANGED evicted

\* client.logout().catch: the client is destroyed directly.
LogoutRejected(e) ==
    /\ running
    /\ e.client.logout = "pending"
    /\ Commit(Put(Store, e, [e.client EXCEPT !.logout = "failed",
                                             !.phase = "closed",
                                             !.destroyed = @ + 1]))
    /\ Background
    /\ UNCHANGED evicted

\* ------------------------------------------------------ background steps
IdleAtTimeout(st) ==
    {t \in Tenants : /\ st.sessionTimers[t] # NoTimer
                     /\ st.sessionTimers[t] >= SESSION_TIMEOUT}

\* now - sessionTimers[tenantId] > SESSION_TIMEOUT, over Object.keys(sessionTimers)
Idle(st) ==
    {t \in Tenants : /\ st.sessionTimers[t] # NoTimer
                     /\ st.sessionTimers[t] > SESSION_TIMEOUT}

\* setInterval(cleanupInactiveSessions, 300000)
cleanupInactiveSessions ==
    /\ running
    /\ Commit(cleanupAll(Store, Idle(Store)))
    /\ evicted' = evicted \cup (Idle(Store) \cap Registered(Store))
    /\ Background

\* One tick of time passes.
Tick ==
    /\ running
    /\ sessionTimers' =
         [t \in Tenants |->
            IF sessionTimers[t] = NoTimer \/ sessionTimers[t] > SESSION_TIMEOUT
            THEN sessionTimers[t]
            ELSE sessionTimers[t] + 1]
    /\ UNCHANGED <<MAX_SESSIONS, sessions, statuses, orphans, renders, files,
                   started, running, pendingSend, evicted, overtaken>>

\* process.on('SIGTERM' | 'SIGINT'): every registered session is cleaned up and
\* the process exits; its maps and the request in flight are gone with it, the
\* sign-offs it started and the credential directories are not.
Shutdown ==
    /\ running
    /\ running' = FALSE
    /\ orphans' = cleanupAll(Store, Registered(Store)).orphans
    /\ files' = cleanupAll(Store, Registered(Store)).files
    /\ renders' = {}
    /\ sessions' = [t \in Tenants |-> NoClient]
    /\ statuses' = [t \in Tenants |-> Undefined]
    /\ sessionTimers' = [t \in Tenants |-> NoTimer]
    /\ pendingSend' = FALSE
    /\ evicted' = {}
    /\ overtaken' = {}
    /\ started' = TRUE
    /\ UNCHANGED MAX_SESSIONS

\* The orders in which readdir can list a set of directories.
Orders(S) ==
    {seq \in [1..Cardinality(S) -> S] :
        \A i, j \in 1..Cardinality(S) : i # j => seq[i] # seq[j]}

reconnectFirst(st, order) ==
    IF order = <<>> THEN st
    ELSE IF validateTenantId(Head(order)) THEN createSession(st, Head(order))
    ELSE st

\* files.forEach: a session is created for every well-formed id listed.
RECURSIVE reconnectAll(_, _)
reconnectAll(st, order) ==
    IF order = <<>> THEN st
    ELSE reconnectAll(IF validateTenantId(Head(order))
                      THEN createSession(st, Head(order))
                      ELSE st,
                      Tail(order))

\* The callback of fs.readdir at startup; err: the directory could not be
\* listed.  other: directories that are not the credentials of a tenant.
Startup(err, other) ==
    /\ running
    /\ ~started
    /\ started' = TRUE
    /\ UNCHANGED <<MAX_SESSIONS, running, pendingSend, evicted>>
    /\ IF err
       THEN UNCHANGED <<sessions, statuses, sessionTimers, orphans, renders, files,
                        overtaken>>
       ELSE \E order \in Orders(files \cup other) :
                Commit(reconnectAll(Store, order))

\* ------------------------------------------------------------------ init
Init ==
    /\ MAX_SESSIONS \in 1..MaxCapacity
    /\ sessions = [t \in Tenants |-> NoClient]
    /\ statuses = [t \in Tenants |-> Undefined]
    /\ sessionTimers = [t \in Tenants |-> NoTimer]
    /\ orphans = {}
    /\ renders = {}
    /\ files \in SUBSET Tenants
    /\ started = FALSE
    /\ running = TRUE
    /\ pendingSend = FALSE
    /\ evicted = {}
    /\ overtaken = {}

\* The requests for the tenant ids of ids.
Requests(ids) ==
    \/ \E t \in ids : Status(t)
    \/ \E t \in ids, hasInfo \in BOOLEAN : Info(t, hasInfo)
    \/ \E t \in ids, hasInfo \in BOOLEAN, fetched \in BOOLEAN :
           ProfilePic(t, hasInfo, fetched)
    \/ \E t \in ids : Qr(t)
    \/ \E t \in ids : Reconnect(t)
    \/ \E t \in ids : Logout(t)

Sends(ids) ==
    \/ \E t \in ids, body \in Payloads : Send(t, body)
    \/ \E sent \in BOOLEAN : SendSettled(sent)

\* What the clients of from do.
Events(from) ==
    \/ \E e \in from : EmitQr(e)
    \/ \E e \in from : EmitReady(e)
    \/ \E e \in from : EmitAuthenticated(e)
    \/ \E e \in from : EmitAuthFailure(e)
    \/ \E e \in from : EmitDisconnected(e)
    \/ \E e \in from : EmitChangeState(e)
    \/ \E e \in from : InitializeRejected(e)

Settles ==
    \/ \E e \in Emitters : LogoutResolved(e)
    \/ \E e \in Emitters : LogoutRejected(e)
    \/ \E t \in Tenants, err \in BOOLEAN : QrRendered(t, err)

Process ==
    \/ Shutdown
    \/ \E err \in BOOLEAN, other \in {{}, {"a/b"}} : Startup(err, other)

Timing ==
    \/ cleanupInactiveSessions
    \/ Tick

Next ==
    \/ Requests(TenantIds)
    \/ Sends(TenantIds)
    \/ Events(Emitters)
    \/ Settles
    \/ Process
    \/ Timing

Spec == Init /\ [][Next]_vars

InitTenant == Init /\ files \subseteq {"t1"}

NextTenant ==
    \/ Requests({"t1", "a/b"})
    \/ Sends({"t1", "a/b"})
    \/ Events(Emitters)
    \/ Settles
    \/ Process
    \/ Timing

SpecTenant == InitTenant /\ [][NextTenant]_vars

\* The same with the scheduling the code relies on: the clock advances, the
\* interval timer runs the idle scan again and again, and every logout()
\* promise settles.
FairTenant ==
    /\ SpecTenant
    /\ WF_vars(Tick)
    /\ WF_vars(cleanupInactiveSessions)
    /\ WF_vars(\E e \in Emitters : LogoutResolved(e) \/ LogoutRejected(e))

\* No unreferenced client has anything left to do, no rendering is under way.
Quiet == orphans = {} /\ renders = {}

NextCapacity ==
    \/ Quiet /\ Requests({"t1", "t2", "a/b"})
    \/ Quiet /\ Events(Emitters)
    \/ ~Quiet /\ Events({e \in Emitters : ~e.reg})
    \/ Settles
    \/ Quiet /\ Process

SpecCapacity == Init /\ [][NextCapacity]_vars

\* Two tenants and the clock: the requests, the events of the registered
\* clients and the idle scan wait until the unreferenced clients are done; no
\* message is sent and the process is neither started from disk nor stopped.
InitScan == Init /\ files = {}

NextScan ==
    \/ Quiet /\ Requests({"t1", "t2"})
    \/ Quiet /\ Events(Emitters)
    \/ ~Quiet /\ Events({e \in Emitters : ~e.reg})
    \/ Settles
    \/ Quiet /\ cleanupInactiveSessions
    \/ Tick

SpecScan == InitScan /\ [][NextScan]_vars

\* ================================================================ claims
\* The tenants the QR route attempts a creation for.
Admitted(st) ==
    {t \in Tenants : st.statuses[t].status \in {"undefined", "disconnected", "error"}}

\* The QR requests for the tenants of order, served one after the other.
RECURSIVE qrAll(_, _)
qrAll(st, order) ==
    IF order = <<>> THEN st
    ELSE qrAll(qrRoute(st, Head(order)), Tail(order))

\* Of requests that all attempt a creation, those that created a session and
\* those refused for capacity.
Succeeded(st, ids) == {t \in ids : st.statuses[t] = StatusOf("initializing")}
Refused(st, ids) == {t \in ids : st.statuses[t] = ErrorStatus(MaximumReached)}

\* The free slots of the registry.
Free(st) == MAX_SESSIONS - Cardinality(Registered(st))

\* ---------------------------------------------------------------- C1
\* C1: in every reachable state the number of tenants with an entry in
\* sessions is at most MAX_SESSIONS.
C1_CapacityRespected == Cardinality(Registered(Store)) <= MAX_SESSIONS

\* The registry is full and a creation has been refused for it.
C1_FullAndRefusing ==
    /\ Free(Store) = 0
    /\ \E t \in Tenants : statuses[t] = ErrorStatus(MaximumReached)

C3_RefusalLeavesErrorOnly ==
    \A t \in Tenants :
        qrRoute(Store, t).code = 503 =>
            /\ qrRoute(Store, t).sessions = sessions
            /\ qrRoute(Store, t).orphans = orphans
            /\ qrRoute(Store, t).statuses =
                   [statuses EXCEPT ![t] = ErrorStatus(MaximumReached)]
            /\ statusRoute(qrRoute(Store, t), t).status = "error"

\* A tenant without a session has been refused while another held the slot.
C3_RefusedWithoutSession ==
    \E t \in Tenants :
        /\ sessions[t] = NoClient
        /\ statuses[t] = ErrorStatus(MaximumReached)
        /\ sessionTimers[t] # NoTimer
        /\ \E u \in Tenants \ {t} : sessions[u] # NoClient

\* C3 as stated: after a refusal the status query answers what it answered
\* before.
C3_RefusalKeepsStatus ==
    \A t \in Tenants :
        qrRoute(Store, t).code = 503 =>
            statusRoute(qrRoute(Store, t), t).status = statusRoute(Store, t).status

\* ---------------------------------------------------------------- C4
\* The bodies that pass every validation of the send route.
WellFormed ==
    {body \in Payloads :
        /\ body.number.type = "string" /\ body.message.type = "string"
        /\ Len(body.message.chars) \in 1..MaxMessageLength
        /\ Len(cleanNumber(body.number)) \in MinNumberDigits..MaxNumberDigits}

\* C4: a send request with a well-formed body reaches client.sendMessage only
\* if the tenant's status is ready when it is served; under any other status
\* it is answered 409 and client.sendMessage is not called.
C4_SendOnlyWhenReady ==
    \A t \in Tenants, body \in WellFormed :
        LET answer == sendRoute(Store, t, body) IN
        /\ answer.awaiting => statuses[t].status = "ready"
        /\ statuses[t].status # "ready" => answer.code = 409 /\ ~answer.awaiting

\* A message has been handed to the client of a ready session.
C4_Dispatched ==
    /\ pendingSend
    /\ \E t \in Tenants : statuses[t] = StatusOf("ready")

\* ---------------------------------------------------------------- C5
\* C5: a send request changes neither a status nor an entry of sessions,
\* whether it is answered 400, 409, 500 or 200.
C5_SendKeepsStatusAndEntry ==
    /\ \A t \in TenantIds, body \in Payloads :
           LET answer == sendRoute(Store, t, body) IN
           /\ answer.statuses = statuses
           /\ answer.sessions = sessions
           /\ answer.code \in {400, 409} \/ answer.awaiting
    /\ \A sent \in BOOLEAN :
           LET answer == sendSettled(Store, sent) IN
           /\ answer.statuses = statuses
           /\ answer.sessions = sessions
           /\ answer.code = IF sent THEN 200 ELSE 500

\* A send is waiting on the client while the session it went to is registered
\* and ready: the outcomes 200 and 500 are next.
C5_SendInFlight ==
    /\ pendingSend
    /\ \E t \in Tenants : sessions[t].phase = "ready" /\ statuses[t].status = "ready"

\* ---------------------------------------------------------------- C6
\* C6: for every well-formed tenant id and in every reachable state the status
\* query answers 200, with disconnected when statuses has no record of the
\* tenant and with the status of the record otherwise.
C6_StatusAlwaysAnswers ==
    \A t \in Tenants :
        /\ statusRoute(Store, t).code = 200
        /\ statusRoute(Store, t).status =
               IF statuses[t] = Undefined THEN "disconnected"
               ELSE statuses[t].status
        /\ statusRoute(Store, t).status # "undefined"

\* A request has been served for a tenant that has no record.
C6_AskedWithoutRecord ==
    \E t \in Tenants :
        /\ statuses[t] = Undefined
        /\ sessions[t] = NoClient
        /\ sessionTimers[t] = 0

C8_EvictionKeepsCredentials ==
    LET swept == cleanupAll(Store, Idle(Store)) IN
    /\ swept.files = files
    /\ \A t \in Idle(Store) \cap Registered(Store) :
           /\ swept.sessions[t] = NoClient
           /\ qrRoute(swept, t).code \in {202, 503}
           /\ (qrRoute(swept, t).code = 202 /\ t \in files) =>
                  qrRoute(swept, t).sessions[t] = NewClient(t, TRUE)

\* A tenant torn down by the idle scan has a session again, which became ready
\* without an auth code.
C8_ReadyAgainSilently ==
    \E t \in evicted :
        /\ sessions[t].phase = "ready"
        /\ sessions[t].silent
        /\ statuses[t] = StatusOf("ready")

\* ---------------------------------------------------------------- C9
\* C9: a step that removes a tenant's credential directory is the serving of a
\* logout request for that tenant: no reconnect, idle scan, client event,
\* refused creation, startup reconnection or shutdown removes one.
C9_OnlyLogoutDeletes ==
    [][\A t \in Tenants : (t \in files /\ t \notin files') => Logout(t)]_vars

\* A client that had found stored credentials is signing off, and the
\* credentials are gone: a logout deleted them.
C9_DeletedByLogout ==
    \E o \in orphans : o.silent /\ o.logout = "pending" /\ o.tenant \notin files

\* --------------------------------------------------------------- C10
\* C10: no client is destroyed twice: when the rejection of logout() destroys
\* a client, the disconnected handler has not destroyed it before.
C10_DestroyedOnce ==
    [][\A e \in Emitters : LogoutRejected(e) => e.client.destroyed = 0]_vars

\* --------------------------------------------------------------- C11
\* C11: every client that the registry does not hold has had its release
\* initiated: logout() or destroy() has been called on it.
C11_NoOrphanedAdapters ==
    \A o \in orphans : o.logout # "none" \/ o.destroyed > 0

\* --------------------------------------------------------------- C12
\* C12: a tenant whose status is initializing, qr, authenticated or ready has
\* a client in the registry.
C12_LiveStatusHasHandle ==
    \A t \in Tenants :
        statuses[t].status \in {"initializing", "qr", "authenticated", "ready"}
            => sessions[t] # NoClient

\* --------------------------------------------------------------- C13
\* C13: the QR route decides by the tenant's status.  Under ready or
\* authenticated it answers 200 'authenticated', under qr with a stored code
\* 200 'qr', under initializing 202, and in these cases it creates no client
\* and leaves statuses and sessions as they are, so that the same request
\* again gets the same answer.  Under no status, disconnected or error it
\* calls createSession and answers 202 with status initializing, or 503 when
\* the capacity is reached.
C13_QrDecidesByStatus ==
    \A t \in Tenants :
        LET s == statuses[t]
            answer == qrRoute(Store, t)
            untouched == /\ answer.sessions = sessions
                         /\ answer.statuses = statuses
                         /\ answer.orphans = orphans
                         /\ qrRoute(answer, t) = answer IN
        /\ s.status \in {"ready", "authenticated"} =>
               answer.code = 200 /\ answer.status = "authenticated" /\ untouched
        /\ (s.status = "qr" /\ s.qr) =>
               answer.code = 200 /\ answer.status = "qr" /\ untouched
        /\ s.status = "initializing" =>
               answer.code = 202 /\ answer.status = "initializing" /\ untouched
        /\ (s.status \in {"undefined", "disconnected", "error"}
              /\ canCreateSession(Store)) =>
               /\ answer.code = 202
               /\ answer.statuses[t] = StatusOf("initializing")
               /\ answer.sessions[t] = NewClient(t, t \in files)
        /\ (s.status \in {"undefined", "disconnected", "error"}
              /\ ~canCreateSession(Store)) =>
               /\ answer.code = 503
               /\ answer.sessions = sessions
               /\ answer.orphans = orphans
        /\ s.status \in {"undefined", "initializing", "qr", "authenticated",
                         "ready", "disconnected", "error"}

\* A tenant whose code has been rendered is polled: its status is qr with the
\* code, its client is registered and its activity is fresh.
C13_PollingForCode ==
    \E t \in Tenants :
        /\ statuses[t] = QrStatus
        /\ sessions[t].phase = "qr"
        /\ sessionTimers[t] = 0
        /\ t \notin renders

\* --------------------------------------------------------------- C14
\* C14: when the logout route has answered, the tenant is not among the
\* registered sessions any more and the others still are; with MAX_SESSIONS =
\* 1, a tenant refused while another was ready is admitted by the QR request
\* that follows the logout of that other, whose status is then disconnected.
C14_LogoutFreesSlot ==
    \A t \in Tenants :
        LET gone == logoutRoute(Store, t) IN
        /\ gone.code = 200
        /\ Registered(gone) = Registered(Store) \ {t}
        /\ \A u \in Tenants \ {t} :
               (/\ MAX_SESSIONS = 1
                /\ sessions[t] # NoClient
                /\ statuses[t] = StatusOf("ready")
                /\ statuses[u] = ErrorStatus(MaximumReached)) =>
                   /\ statusRoute(gone, t).status = "disconnected"
                   /\ qrRoute(gone, u).code = 202
                   /\ qrRoute(gone, u).sessions[u] # NoClient
                   /\ qrRoute(gone, u).statuses[u] = StatusOf("initializing")

\* With one slot, the tenant that held it ready has been logged out, its
\* client is signing off, and the tenant refused before finds the registry
\* empty.
C14_SlotFreedByLogout ==
    /\ MAX_SESSIONS = 1
    /\ Registered(Store) = {}
    /\ \E o \in orphans, u \in Tenants :
        /\ o.phase = "ready" /\ o.logout = "pending"
        /\ o.tenant # u
        /\ o.tenant \notin files
        /\ statuses[o.tenant] = StatusOf("disconnected")
        /\ statuses[u] = ErrorStatus(MaximumReached)

C16_ReconnectIsCleanupThenCreate ==
    \A t \in Tenants :
        LET answer == reconnectRoute(Store, t)
            torn == cleanupSession(Store, t, FALSE)
            made == qrRoute(torn, t)
            released == IF sessions[t] = NoClient THEN {}
                        ELSE {[sessions[t] EXCEPT !.logout = "pending"]} IN
        /\ answer.sessions = made.sessions
        /\ answer.statuses = made.statuses
        /\ answer.orphans = made.orphans
        /\ answer.files = files
        /\ torn.files = files
        /\ answer.orphans = orphans \cup released
        /\ \A u \in Tenants \ {t} : answer.sessions[u] = sessions[u]
        /\ answer.code = IF Cardinality(Registered(Store) \ {t}) < MAX_SESSIONS
                         THEN 200 ELSE 503
        /\ answer.code = 200 =>
               /\ answer.sessions[t] = NewClient(t, t \in files)
               /\ answer.statuses[t] = StatusOf("initializing")
        /\ answer.code = 503 => answer.sessions[t] = NoClient

\* A tenant that had authenticated has been reconnected: its earlier client is
\* signing off, a new one is registered, the credentials are in place.
C16_Reconnected ==
    \E t \in Tenants, o \in orphans :
        /\ o.tenant = t
        /\ o.logout = "pending"
        /\ o.phase \in {"authenticated", "ready"}
        /\ sessions[t] = NewClient(t, TRUE)
        /\ statuses[t] = StatusOf("initializing")
        /\ t \in files

\* --------------------------------------------------------------- C17
Min(a, b) == IF a < b THEN a ELSE b

\* C17: with nothing registered, the startup reconnection over the credential
\* directories, in whatever order readdir lists them, registers a client in
\* status initializing for min(number of directories, MAX_SESSIONS) tenants,
\* each over its stored credentials; the other tenants get no client, and
\* every directory is still there.
C17_StartupFillsCapacity ==
    (Registered(Store) = {} /\ orphans = {}) =>
        \A order \in Orders(files) :
            LET up == reconnectAll(Store, order) IN
            /\ Cardinality(Registered(up)) = Min(Cardinality(files), MAX_SESSIONS)
            /\ Registered(up) \subseteq files
            /\ \A t \in Registered(up) :
                   /\ up.sessions[t] = NewClient(t, TRUE)
                   /\ up.statuses[t] = StatusOf("initializing")
            /\ up.orphans = {}
            /\ up.files = files

\* Startup has found two directories and one slot: one tenant is initializing
\* over its credentials, the other was skipped and has no client.
C17_StartedBeyondCapacity ==
    /\ started
    /\ MAX_SESSIONS = 1
    /\ \E t, u \in files :
        /\ sessions[t] = NewClient(t, TRUE)
        /\ statuses[t] = StatusOf("initializing")
        /\ sessions[u] = NoClient
        /\ statuses[u] = ErrorStatus(MaximumReached)
        /\ sessionTimers[u] = NoTimer

\* --------------------------------------------------------------- C18
\* C18: the signal handler can run whenever the process runs, whatever the
\* sign-offs under way; and the step in which the process exits has invoked
\* logout() on the client of every session registered before it, waits for
\* none of them, and has removed no credential directory.
C18_ShutdownReleasesAll ==
    /\ [](running => ENABLED Shutdown)
    /\ [][(running /\ ~running') =>
            /\ \A t \in Registered(Store) :
                   [sessions[t] EXCEPT !.logout = "pending"] \in orphans'
            /\ \A o \in orphans' : o \in orphans \/ o.logout = "pending"
            /\ files' = files]_vars

\* The process has exited while the sign-off of a client it had registered
\* has not completed; the tenant's credentials are in place.
C18_ExitedWhileSigningOff ==
    /\ ~running
    /\ \E o \in orphans :
        /\ o.logout = "pending"
        /\ o.phase \in {"authenticated", "ready"}
        /\ o.tenant \in files

\* --------------------------------------------------------------- C19
\* C19: the handling of every qr, authenticated, ready, auth_failure and
\* disconnected event of a tenant's client, of every status query and of every
\* send request for a tenant leaves the tenant's activity time at now.
C19_ActivityRefreshed ==
    [][/\ \A e \in Emitters :
              (\/ EmitQr(e) \/ EmitAuthenticated(e) \/ EmitReady(e)
               \/ EmitAuthFailure(e) \/ EmitDisconnected(e)) =>
                  sessionTimers'[e.client.tenant] = 0
       /\ \A t \in Tenants :
              (Status(t) \/ \E body \in Payloads : Send(t, body)) =>
                  sessionTimers'[t] = 0]_vars

\* --------------------------------------------------------------- C20
\* C20: when the registered client of a tenant emits auth_failure, or its
\* initialize() rejects, the handler leaves the tenant's status at error with
\* a message, which is what the status route then reports, and the registry
\* as it was: the tenant keeps its client and its slot.
C20_FailureKeepsSession ==
    [][\A e \in Emitters :
          (e.reg /\ (EmitAuthFailure(e) \/ InitializeRejected(e))) =>
              /\ statuses'[e.client.tenant].status = "error"
              /\ statuses'[e.client.tenant].message
                     \in {AuthenticationFailed, InitializationFailed}
              /\ sessions'[e.client.tenant] # NoClient
              /\ \A u \in Tenants : sessions'[u] = NoClient <=> sessions[u] = NoClient
              /\ orphans' = orphans]_vars

\* The registered client of a tenant has failed: the tenant's status is error
\* with the message of the failure and the client is still registered.
C20_FailedAndRegistered ==
    \E t \in Tenants :
        /\ sessions[t].phase = "failed"
        /\ statuses[t] \in {ErrorStatus(AuthenticationFailed),
                            ErrorStatus(InitializationFailed)}
        /\ statusRoute(Store, t).status = "error"

\* --------------------------------------------------------------- C21
\* The ids of the model that are not well-formed: empty, with a character
\* outside the pattern, of 51 characters.
Malformed == {"", "a/b", LongId}

\* C21: every session route, asked with a tenant id that is not well-formed,
\* answers 400 and leaves sessions, statuses, sessionTimers, the clients and
\* the credential directories as they are.
C21_MalformedIdRejected ==
    \A t \in Malformed :
        LET rejected == Respond(Store, 400, "none") IN
        /\ statusRoute(Store, t) = rejected
        /\ qrRoute(Store, t) = rejected
        /\ reconnectRoute(Store, t) = rejected
        /\ logoutRoute(Store, t) = rejected
        /\ \A hasInfo \in BOOLEAN : infoRoute(Store, t, hasInfo) = rejected
        /\ \A hasInfo \in BOOLEAN, fetched \in BOOLEAN :
               profilePicRoute(Store, t, hasInfo, fetched) = rejected
        /\ \A body \in Payloads : sendRoute(Store, t, body) = rejected

\* A session is ready and has its credentials stored while requests with an id
\* that is not well-formed are refused.
C21_RefusedBesideSession ==
    /\ \E t \in Tenants : sessions[t].phase = "ready" /\ t \in files
    /\ \A t \in Malformed : logoutRoute(Store, t).code = 400

\* --------------------------------------------------------------- C22
\* C22: a client that leaves the registry leaves it released or being
\* released: no step takes a registered client out of the registry as it is,
\* with neither logout() nor destroy() invoked on it.
C22_RemovedIsReleased ==
    [][\A t \in Tenants :
          sessions[t] # NoClient =>
              \A o \in orphans' \ orphans :
                  o = sessions[t] => (o.logout # "none" \/ o.destroyed > 0)]_vars

\* --------------------------------------------------------------- C23
\* C23: while a tenant has a session, its status becomes qr only from
\* initializing or qr, authenticated only from initializing or qr, and ready
\* only from authenticated; and the step that creates a session leaves the
\* status at initializing.
C23_TransitionTable ==
    [][\A t \in Tenants :
          /\ (sessions[t] # NoClient /\ sessions'[t] # NoClient
                /\ statuses'[t].status # statuses[t].status) =>
                 /\ statuses'[t].status = "qr" =>
                        statuses[t].status \in {"initializing", "qr"}
                 /\ statuses'[t].status = "authenticated" =>
                        statuses[t].status \in {"initializing", "qr"}
                 /\ statuses'[t].status = "ready" =>
                        statuses[t].status = "authenticated"
          /\ (sessions[t] = NoClient /\ sessions'[t] # NoClient) =>
                 statuses'[t].status = "initializing"]_vars


\* --------------------------------------------------------------- C24
\* C24: a status of error is terminal for adapter events: no step takes a
\* tenant's status from error to qr, authenticated or ready (the requests that
\* leave error go through initializing or disconnected).
C24_ErrorIsTerminal ==
    [][\A t \in Tenants :
          statuses[t].status = "error" =>
              statuses'[t].status \notin {"qr", "authenticated", "ready"}]_vars


\* --------------------------------------------------------------- C25
\* C25: when the client registered for a tenant emits 'disconnected', in any
\* phase, the tenant's status becomes disconnected, the client is destroyed
\* and runs nothing more, the tenant's registry entry is removed and the
\* number of registered sessions drops by one; if the registry was full, a
\* tenant refused for capacity is admitted by its next QR request.
C25_DisconnectFreesSlot ==
    [][\A e \in Emitters :
          (e.reg /\ EmitDisconnected(e)) =>
              LET t == e.client.tenant IN
              /\ statuses'[t] = StatusOf("disconnected")
              /\ sessions'[t] = NoClient
              /\ \A o \in orphans' : o.tenant = t => o \in orphans
              /\ Cardinality(Registered(Store')) =
                     Cardinality(Registered(Store)) - 1
              /\ \A u \in Tenants :
                     (/\ Cardinality(Registered(Store)) = MAX_SESSIONS
                      /\ statuses'[u] = ErrorStatus(MaximumReached)) =>
                         /\ qrRoute(Store', u).code = 202
                         /\ qrRoute(Store', u).sessions[u] # NoClient
                         /\ qrRoute(Store', u).statuses[u] = StatusOf("initializing")]_vars

\* With one slot, the tenant that held it has lost its connection: its
\* credentials are still on disk, nothing is signing off, the registry is
\* empty, and the other tenant was refused before.
C25_SlotFreedByDisconnect ==
    /\ MAX_SESSIONS = 1
    /\ Registered(Store) = {}
    /\ orphans = {}
    /\ \E t \in Tenants, u \in Tenants :
        /\ t # u
        /\ t \in files
        /\ statuses[t] = StatusOf("disconnected")
        /\ sessionTimers[t] = NoTimer
        /\ statuses[u] = ErrorStatus(MaximumReached)


\* --------------------------------------------------------------- C26
\* C26: for a tenant whose status is error, while the other tenants hold fewer
\* than MAX_SESSIONS sessions, a QR request creates a session (202, status
\* initializing, a fresh client registered), and the client the tenant had
\* registered before is released by it, not just dropped.
C26_ErroredSessionFreesOwnSlot ==
    \A t \in Tenants :
        (/\ statuses[t].status = "error"
         /\ Cardinality(Registered(Store) \ {t}) < MAX_SESSIONS) =>
            LET r == qrRoute(Store, t) IN
            /\ r.code = 202
            /\ r.statuses[t] = StatusOf("initializing")
            /\ r.sessions[t] = NewClient(t, t \in files)
            /\ sessions[t] # NoClient =>
                   \A o \in r.orphans \ orphans :
                       o.tenant = t => (o.logout # "none" \/ o.destroyed > 0)


\* --------------------------------------------------------------- C27
\* C27: in every reachable state a tenant's status record holds a QR code
\* only if its status is qr, and a failure message only if its status is
\* error.
C27_PayloadMatchesStatus ==
    \A t \in Tenants :
        /\ statuses[t].qr => statuses[t].status = "qr"
        /\ statuses[t].message # "" => statuses[t].status = "error"

\* A tenant whose client showed a code, whose rendering has returned, and then
\* connected: the record written by the rendering has been replaced by ready.
C27_CodeDroppedOnceReady ==
    \E t \in Tenants :
        /\ sessions[t] # NoClient
        /\ sessions[t].phase = "ready"
        /\ ~sessions[t].silent
        /\ t \notin renders
        /\ statuses[t].status = "ready"


\* --------------------------------------------------------------- C28
\* C28: one run of the idle scan tears down the tenants whose last activity
\* is older than SESSION_TIMEOUT, as the reconnect route's cleanupSession
\* does (sign-off started, entry and last activity deleted, status
\* disconnected, credentials kept), and leaves the session, status and last
\* activity of every other tenant as they were.
C28_ScanTearsDownIdleOnly ==
    [][cleanupInactiveSessions =>
          /\ files' = files
          /\ \A t \in Tenants :
                IF sessionTimers[t] # NoTimer /\ sessionTimers[t] > SESSION_TIMEOUT
                THEN /\ sessions'[t] = NoClient
                     /\ sessionTimers'[t] = NoTimer
                     /\ statuses'[t] = StatusOf("disconnected")
                     /\ sessions[t] # NoClient =>
                            [sessions[t] EXCEPT !.logout = "pending"] \in orphans'
                     /\ LET torn == cleanupSession(Store, t, FALSE) IN
                        /\ sessions'[t] = torn.sessions[t]
                        /\ sessionTimers'[t] = torn.sessionTimers[t]
                        /\ statuses'[t] = torn.statuses[t]
                ELSE /\ sessions'[t] = sessions[t]
                     /\ sessionTimers'[t] = sessionTimers[t]
                     /\ statuses'[t] = statuses[t]]_vars

\* The scan has just torn down one tenant, whose client is still signing off,
\* while another tenant, active within the timeout, is still registered.
C28_OneEvictedOneKept ==
    \E t \in evicted, u \in Tenants :
        /\ t # u
        /\ sessions[t] = NoClient
        /\ statuses[t] = StatusOf("disconnected")
        /\ \E o \in orphans : o.tenant = t /\ o.logout = "pending"
        /\ sessions[u] # NoClient
        /\ sessionTimers[u] # NoTimer
        /\ sessionTimers[u] <= SESSION_TIMEOUT


\* --------------------------------------------------------------- C29
\* A request for tenant t is served.
RequestFor(t) ==
    \/ Status(t)
    \/ \E hasInfo \in BOOLEAN : Info(t, hasInfo)
    \/ \E hasInfo \in BOOLEAN, fetched \in BOOLEAN :
           ProfilePic(t, hasInfo, fetched)
    \/ Qr(t)
    \/ \E body \in Payloads : Send(t, body)
    \/ Reconnect(t)
    \/ Logout(t)

\* The client of e emits an event or its connect fails.
EventOf(e) ==
    \/ EmitQr(e)
    \/ EmitReady(e)
    \/ EmitAuthenticated(e)
    \/ EmitAuthFailure(e)
    \/ EmitDisconnected(e)
    \/ EmitChangeState(e)
    \/ InitializeRejected(e)

\* The scan has a tenant to tear down, and the bound on the unreferenced
\* clients the model follows keeps it from running.
ScanBlocked ==
    Cardinality({c \in cleanupAll(Store, Idle(Store)).orphans : ~Garbage(c)})
        > MaxOrphans

\* C29: with a fair clock and a fair idle scan, if from some point on no
\* request for a tenant is served and the client registered for it emits no
\* event, then from some point on the tenant has no registered session
\* (runs that the model's bound cuts short are left out).
C29_IdleSessionEvicted ==
    \A t \in Tenants :
        \/ []<><<\/ RequestFor(t)
                 \/ \E e \in Emitters :
                       e.reg /\ e.client.tenant = t /\ EventOf(e)>>_vars
        \/ <>[](sessions[t] = NoClient)
        \/ []<>ScanBlocked


\* --------------------------------------------------------------- C30
\* C30: an event, or a failed connect, of a client that is not the one
\* registered for its tenant, while the tenant has a registered session,
\* leaves the tenant's status as it was, does not remove the tenant's registry
\* entry and does not delete its last activity.
C30_SupersededIsInert ==
    [][\A e \in Emitters :
          (~e.reg /\ sessions[e.client.tenant] # NoClient /\ EventOf(e)) =>
              LET t == e.client.tenant IN
              /\ statuses'[t] = statuses[t]
              /\ sessions'[t] # NoClient
              /\ sessionTimers[t] # NoTimer => sessionTimers'[t] # NoTimer]_vars


\* --------------------------------------------------------------- C31
\* C31: in every reachable state, a tenant with an entry in sessions has a
\* status record, and its status is not disconnected.
C31_RegisteredHasLiveStatus ==
    \A t \in Tenants :
        sessions[t] # NoClient =>
            /\ statuses[t] # Undefined
            /\ statuses[t].status # "disconnected"

\* A tenant torn down by a reconnect, whose old client is still signing off,
\* is registered again and initializing.
C31_RegisteredAgainAfterTeardown ==
    \E t \in Tenants :
        /\ sessions[t] # NoClient
        /\ statuses[t] = StatusOf("initializing")
        /\ \E o \in orphans : o.tenant = t /\ o.logout = "pending"


\* --------------------------------------------------------------- C32
\* C32: in every reachable state, every tenant with an entry in sessions has
\* an entry in sessionTimers, so the idle scan visits it.
C32_RegisteredHasLastActivity ==
    \A t \in Tenants : sessions[t] # NoClient => sessionTimers[t] # NoTimer

\* A session that failed to authenticate is still registered, and its last
\* activity is older than the timeout: the next scan finds it.
C32_FailedSessionSeenByScan ==
    \E t \in Tenants :
        /\ sessions[t] # NoClient
        /\ sessions[t].phase = "failed"
        /\ statuses[t].status = "error"
        /\ sessionTimers[t] > SESSION_TIMEOUT
        /\ t \in Idle(Store)


\* --------------------------------------------------------------- C33
\* C33: when the rendering of a code returns, with the code or with an error,
\* after the tenant's status has been set to authenticated or ready or the
\* tenant has been torn down (status disconnected) while the rendering was
\* under way, and the status is still one of these, the status stays as it
\* is.
C33_RenderingCannotRegress ==
    [][\A t \in Tenants, err \in BOOLEAN :
          (/\ QrRendered(t, err)
           /\ t \in overtaken
           /\ statuses[t].status \in {"authenticated", "ready", "disconnected"}) =>
              statuses'[t] = statuses[t]]_vars


\* --------------------------------------------------------------- C34
\* The maps st hold for tenant b what the current state holds for it.
Untouched(st, b) ==
    /\ st.sessions[b] = sessions[b]
    /\ st.statuses[b] = statuses[b]
    /\ st.sessionTimers[b] = sessionTimers[b]
    /\ (b \in st.files) = (b \in files)

\* C34: in every reachable state, each request for a tenant id a (status,
\* info, profile picture, QR, send, reconnect, logout) leaves the registry
\* entry, status, last activity and credential directory of every other tenant
\* b as they are; and so does every step taken by a client created for a: its
\* events, its failed connect, the settling of its logout() and the callback
\* of a rendering it started.
C34_TenantIsolation ==
    /\ [](\A a \in TenantIds : \A b \in Tenants \ {a} :
             /\ Untouched(statusRoute(Store, a), b)
             /\ \A hasInfo \in BOOLEAN : Untouched(infoRoute(Store, a, hasInfo), b)
             /\ \A hasInfo \in BOOLEAN, fetched \in BOOLEAN :
                    Untouched(profilePicRoute(Store, a, hasInfo, fetched), b)
             /\ Untouched(qrRoute(Store, a), b)
             /\ \A body \in Payloads : Untouched(sendRoute(Store, a, body), b)
             /\ Untouched(reconnectRoute(Store, a), b)
             /\ Untouched(logoutRoute(Store, a), b))
    /\ [][/\ \A e \in Emitters :
                (EventOf(e) \/ LogoutResolved(e) \/ LogoutRejected(e)) =>
                    \A b \in Tenants \ {e.client.tenant} : Untouched(Store', b)
          /\ \A a \in Tenants, err \in BOOLEAN :
                QrRendered(a, err) =>
                    \A b \in Tenants \ {a} : Untouched(Store', b)]_vars

\* One tenant has been logged out, its client is signing off and its
\* credentials are gone, while another tenant is still connected with its
\* credentials on disk.
C34_OneLoggedOutOtherReady ==
    \E a \in Tenants, b \in Tenants :
        /\ a # b
        /\ sessions[a] = NoClient
        /\ statuses[a] = StatusOf("disconnected")
        /\ a \notin files
        /\ \E o \in orphans : o.tenant = a /\ o.logout = "pending"
        /\ sessions[b] # NoClient
        /\ sessions[b].phase = "ready"
        /\ statuses[b] = StatusOf("ready")
        /\ b \in files
====
